---- MODULE Spec2Model ----
(***************************************************************************)
(* Model of the OpenReview ingestion pipeline:                              *)
(*   app/services/openreview_client.py  fetch_notes, summarize,             *)
(*                                      fetch_submissions_for_group,        *)
(*                                      extract_keywords, parse_rating      *)
(*   services/arxiv_matcher.py          normalize_title, similarity,        *)
(*                                      find_arxiv_match                    *)
(*   app/ingest.py                      ingest_group                        *)
(*   app/models.py, app/db.py           the store and its sessions          *)
(*   app/config.py                      arxiv_ttl                           *)
(*                                                                          *)
(* Time is counted in seconds, the unit of settings.arxiv_ttl.  A call is   *)
(* short against that unit: the clock moves between calls (at least one     *)
(* second, the latency of the call's first request) and not inside one.     *)
(*                                                                          *)
(* A pure function has a specification of its own: Init draws its argument  *)
(* `arg` from a bounded set and one action stores what it returns in `ret`. *)
(* Strings such a function takes apart are sequences of characters.         *)
(***************************************************************************)
EXTENDS Integers, Sequences, FiniteSets, TLC

VARIABLES
  venues,    \* table venues: row i has id i
  papers,    \* table papers: row i has id i
  matches,   \* table arxiv_matches: row i has id i
  writer,    \* the session holding the database's write lock, 0 when free
  now,       \* datetime.utcnow(), in seconds
  call,      \* per process: the locals of its ingest_group call
  fn,        \* per process: the locals of its fetch_notes call
  prev,      \* what the previous finished call left (history)
  ncalls,    \* calls started so far
  source,    \* SpecFetch: the number of records the notes endpoint holds
  arg,       \* the argument of the function a specification applies
  ret        \* what that function returned, <<>> before it has

vars == <<venues, papers, matches, writer, now, call, fn, prev, ncalls, source, arg, ret>>

-----------------------------------------------------------------------------
(* Bounds *)

MaxCalls == 2        \* ingest calls in a run of Spec
MaxPageLen == 1      \* records on one page served to ingest
MaxRequests == 4     \* page requests of one fetch_notes call in SpecFetch

-----------------------------------------------------------------------------
(* Program constants *)

None == "None"

Day == 24 * 3600

arxiv_ttl == 14 * 24 * 3600

page_size == 200

DEFAULT_INVITATIONS == <<"Blind_Submission", "Submission">>

FALLBACK_INVITATIONS == <<"Submission">>

-----------------------------------------------------------------------------
(* Inputs *)

Procs == {1, 2}

Groups == {"ICLR.cc/2024/Conference", "NeurIPS.cc/2024/Conference"}

\* Upstream notes: two copies of n1 that differ in content, a second note
\* on the same forum as n1, and a note that carries no forum.
Notes ==
  { [id |-> "n1", forum |-> "f1", title |-> "t1"],
    [id |-> "n1", forum |-> "f1", title |-> "t2"],
    [id |-> "n2", forum |-> "f1", title |-> "t1"],
    [id |-> "n3", forum |-> None, title |-> "t1"] }

RECURSIVE SeqsUpTo(_, _)
SeqsUpTo(S, n) ==
  IF n = 0 THEN {<<>>}
  ELSE LET shorter == SeqsUpTo(S, n - 1)
       IN  shorter \cup {Append(s, x) : s \in {t \in shorter : Len(t) = n - 1}, x \in S}

\* The pages the notes endpoint serves to ingest: all shorter than page_size.
Pages == SeqsUpTo(Notes, MaxPageLen)

\* Seconds between the end of a call and the start of the next one.
Elapse == {13 * Day, 15 * Day}

\* What find_arxiv_match can return: (arxiv_id, arxiv_title, exact, score),
\* the score in hundredths.
MatcherResults ==
  { [aid |-> None, atitle |-> None, exact |-> FALSE, score |-> 0],
    [aid |-> "", atitle |-> "", exact |-> FALSE, score |-> 60],
    [aid |-> "2401.00001", atitle |-> "T1", exact |-> TRUE, score |-> 100] }

-----------------------------------------------------------------------------
(* Helpers *)

Min(S) == CHOOSE x \in S : \A y \in S : x <= y

Max(S) == CHOOSE x \in S : \A y \in S : x >= y

RECURSIVE SortedSeq(_)
SortedSeq(S) == IF S = {} THEN <<>> ELSE <<Min(S)>> \o SortedSeq(S \ {Min(S)})

\* Python truthiness of an optional string
Truthy(x) == x # None /\ x # ""

\* db.scalar(select ...): the first row of the result or None (0); the
\* statement has no ORDER BY, so any matching row may come first.
Scalar(ids) == IF ids = {} THEN {0} ELSE ids

-----------------------------------------------------------------------------
(* openreview_client.py *)

fetch_notes_init(invitation) ==
  [invitation |-> invitation, offset |-> 0, collected |-> <<>>,
   requests |-> <<>>, state |-> "request"]

\* (mutant) only an empty page ends the loop
fetch_notes_page_until_empty(f, notes) ==
  LET sent == Append(f.requests, [limit |-> page_size, offset |-> f.offset, returned |-> Len(notes)])
  IN  IF notes = <<>>
      THEN [f EXCEPT !.requests = sent, !.state = "returned"]
      ELSE [f EXCEPT !.requests = sent,
                     !.collected = f.collected \o notes,
                     !.offset = f.offset + Len(notes)]

\* (mutant) a full page ends the loop as a short one does
fetch_notes_page_once(f, notes) ==
  LET sent == Append(f.requests, [limit |-> page_size, offset |-> f.offset, returned |-> Len(notes)])
  IN  IF notes = <<>>
      THEN [f EXCEPT !.requests = sent, !.state = "returned"]
      ELSE [f EXCEPT !.requests = sent,
                     !.collected = f.collected \o notes,
                     !.offset = f.offset + Len(notes),
                     !.state = "returned"]

\* One pass of the while loop: the request at f.offset answered by `notes`.
fetch_notes_page(f, notes) ==
  LET sent == Append(f.requests, [limit |-> page_size, offset |-> f.offset, returned |-> Len(notes)])
  IN  IF notes = <<>>
      THEN [f EXCEPT !.requests = sent, !.state = "returned"]
      ELSE [f EXCEPT !.requests = sent,
                     !.collected = f.collected \o notes,
                     !.offset = f.offset + Len(notes),
                     !.state = IF Len(notes) < page_size THEN "returned" ELSE "request"]

\* resp.raise_for_status() raises: nothing is returned.
fetch_notes_raise(f) ==
  [f EXCEPT !.requests = Append(f.requests, [limit |-> page_size, offset |-> f.offset, returned |-> -1]),
            !.state = "raised"]

summarize(note) ==
  [forum |-> IF Truthy(note.forum) THEN note.forum ELSE note.id,
   note |-> note.id,
   title |-> note.title]

\* (mutant) the first copy of a record id is kept
seen_values_first(notes) ==
  LET first == {i \in 1..Len(notes) : \A j \in 1..(i - 1) : notes[j].id # notes[i].id}
      order == SortedSeq(first)
  IN  [k \in 1..Len(order) |-> notes[order[k]]]

\* seen = {}; for note in notes: seen[note.id] = note; seen.values():
\* one note per id, in the order the ids were first seen, the last copy kept.
seen_values(notes) ==
  LET first == {i \in 1..Len(notes) : \A j \in 1..(i - 1) : notes[j].id # notes[i].id}
      last(i) == Max({j \in 1..Len(notes) : notes[j].id = notes[i].id})
      order == SortedSeq(first)
  IN  [k \in 1..Len(order) |-> notes[last(order[k])]]

summaries(notes) ==
  LET vals == seen_values(notes) IN [k \in 1..Len(vals) |-> summarize(vals[k])]

-----------------------------------------------------------------------------
(* The store *)

venue_by_group(group_id) == {i \in 1..Len(venues) : venues[i].group_id = group_id}

\* select(Paper).where(Paper.openreview_forum == summary.forum)
SelectPaperKey(row, venue_id, forum) == row.openreview_forum = forum

paper_by_forum(venue_id, forum) ==
  {i \in 1..Len(papers) : SelectPaperKey(papers[i], venue_id, forum)}

\* (mutant) the venue filter dropped
papers_of_any_venue(venue_id) == 1..Len(papers)

\* select(Paper).where(Paper.venue_id == venue.id)
papers_of_venue(venue_id) == {i \in 1..Len(papers) : papers[i].venue_id = venue_id}

matches_of_paper(paper_id) == {i \in 1..Len(matches) : matches[i].paper_id = paper_id}

\* order_by(matched_at.desc()), first row: its matched_at, NoRow without a row
NoRow == -1

latest_matched_at(paper_id) ==
  IF matches_of_paper(paper_id) = {} THEN NoRow
  ELSE Max({matches[i].matched_at : i \in matches_of_paper(paper_id)})

\* (mutant) the comparison turned round
IsFreshInverted(latest, deadline) == latest # NoRow /\ latest < deadline

\* if latest and latest.matched_at > deadline: continue
IsFresh(latest, deadline) == latest # NoRow /\ latest > deadline

\* the session's UPDATEs, in the order the rows were modified
RECURSIVE ApplyDirty(_, _)
ApplyDirty(rows, dirty) ==
  IF dirty = <<>> THEN rows
  ELSE LET d == Head(dirty)
       IN  ApplyDirty([rows EXCEPT ![d.id] = [@ EXCEPT !.title = d.title,
                                                      !.last_refreshed = d.last_refreshed]],
                      Tail(dirty))

-----------------------------------------------------------------------------
(* ingest.py: ingest_group *)

\* group_id.split("/")[0]
GroupHead(group_id) ==
  CASE group_id = "ICLR.cc/2024/Conference" -> "ICLR.cc"
    [] group_id = "NeurIPS.cc/2024/Conference" -> "NeurIPS.cc"
    [] OTHER -> group_id

NoStore == [venues |-> <<>>, papers |-> <<>>, matches |-> <<>>]

NoCall ==
  [pc |-> "idle", group_id |-> None, name |-> None, year |-> None, with_arxiv |-> FALSE,
   phase |-> "default", inv |-> 1, notes |-> <<>>,
   submissions |-> <<>>, idx |-> 1, count |-> 0,
   venue |-> 0, newVenue |-> <<>>, pendPapers |-> <<>>, dirty |-> <<>>,
   deadline |-> 0, plist |-> <<>>, pendMatches |-> <<>>,
   \* history of the call
   served |-> <<>>, before |-> NoStore, step2 |-> <<>>, started |-> 0, trail |-> <<>>,
   venue_found |-> 0, papers_found |-> <<>>]

Active(p) == call[p].pc \notin {"idle", "done", "raised_fetch", "raised_match"}

NoMatchPapers(c) == {c.trail[i].paper : i \in {j \in 1..Len(c.trail) : c.trail[j].invoked /\ ~c.trail[j].inserted}}

\* What is remembered of a finished call; of a call that raised, only that.
Summary(c) ==
  IF c.pc = "done"
  THEN [pc |-> c.pc, group_id |-> c.group_id, with_arxiv |-> c.with_arxiv,
        served |-> c.served, nomatch |-> NoMatchPapers(c)]
  ELSE [pc |-> c.pc, group_id |-> c.group_id, with_arxiv |-> c.with_arxiv,
        served |-> <<>>, nomatch |-> {}]

NoPrev == [pc |-> "idle", group_id |-> None, with_arxiv |-> FALSE, served |-> <<>>, nomatch |-> {}]

Invitations(phase) == IF phase = "default" THEN DEFAULT_INVITATIONS ELSE FALLBACK_INVITATIONS

\* (mutant) the venue is ensured before the fetch is started
BeginVenueFirst(p, group_id, ny, with_arxiv, d) ==
  /\ ~Active(p)
  /\ ncalls < MaxCalls
  /\ ncalls' = ncalls + 1
  /\ now' = now + d
  /\ prev' = IF call[p].pc = "idle" THEN prev ELSE Summary(call[p])
  /\ call' = [call EXCEPT ![p] =
                [NoCall EXCEPT !.pc = "fetch", !.group_id = group_id,
                               !.name = ny[1], !.year = ny[2], !.with_arxiv = with_arxiv,
                               !.venue = IF venue_by_group(group_id) = {} THEN Len(venues) + 1
                                         ELSE Min(venue_by_group(group_id)),
                               !.before = [venues |-> venues, papers |-> papers, matches |-> matches]]]
  /\ fn' = [fn EXCEPT ![p] = fetch_notes_init(<<group_id, DEFAULT_INVITATIONS[1]>>)]
  /\ UNCHANGED <<venues, papers, matches, writer, source, arg, ret>>

\* line 17-19: the call starts and sends the first page request
Begin(p, group_id, ny, with_arxiv, d) ==
  /\ ~Active(p)
  /\ ncalls < MaxCalls
  /\ ncalls' = ncalls + 1
  /\ now' = now + d
  /\ prev' = IF call[p].pc = "idle" THEN prev ELSE Summary(call[p])
  /\ call' = [call EXCEPT ![p] =
                [NoCall EXCEPT !.pc = "fetch", !.group_id = group_id,
                               !.name = ny[1], !.year = ny[2], !.with_arxiv = with_arxiv,
                               !.before = [venues |-> venues, papers |-> papers, matches |-> matches]]]
  /\ fn' = [fn EXCEPT ![p] = fetch_notes_init(<<group_id, DEFAULT_INVITATIONS[1]>>)]
  /\ UNCHANGED <<venues, papers, matches, writer, source, arg, ret>>

\* fetch_submissions_for_group after fetch_notes returned `f`
AfterFetchNotes(c, f) ==
  LET acc == c.notes \o f.collected
      srv == Append(c.served, [invitation |-> f.invitation, notes |-> f.collected])
      list == Invitations(c.phase)
  IN  IF c.inv < Len(list)
      THEN [call |-> [c EXCEPT !.notes = acc, !.served = srv, !.inv = c.inv + 1],
            next |-> <<c.group_id, list[c.inv + 1]>>]
      ELSE IF c.phase = "default" /\ acc = <<>>
      THEN [call |-> [c EXCEPT !.notes = acc, !.served = srv, !.phase = "fallback", !.inv = 1],
            next |-> <<c.group_id, FALLBACK_INVITATIONS[1]>>]
      ELSE [call |-> [c EXCEPT !.notes = acc, !.served = srv, !.pc = "venue",
                               !.submissions = IF acc = <<>> THEN <<>> ELSE summaries(acc)],
            next |-> <<>>]

\* line 19: one page of the notes endpoint arrives
FetchPage(p, notes) ==
  /\ call[p].pc = "fetch"
  /\ fn[p].state = "request"
  /\ LET f == fetch_notes_page(fn[p], notes)
     IN  IF f.state = "returned"
         THEN LET a == AfterFetchNotes(call[p], f)
              IN  /\ call' = [call EXCEPT ![p] = a.call]
                  /\ fn' = [fn EXCEPT ![p] = IF a.next = <<>> THEN f ELSE fetch_notes_init(a.next)]
         ELSE /\ fn' = [fn EXCEPT ![p] = f]
              /\ UNCHANGED call
  /\ UNCHANGED <<venues, papers, matches, writer, now, prev, ncalls, source, arg, ret>>

\* (mutant) a failed page request ends the pages: the records so far are used
FetchRaiseSwallowed(p) ==
  /\ call[p].pc = "fetch"
  /\ fn[p].state = "request"
  /\ fn' = [fn EXCEPT ![p] = fetch_notes_raise(fn[p])]
  /\ call' = [call EXCEPT ![p] =
                [@ EXCEPT !.pc = "venue", !.notes = @ \o fn[p].collected,
                          !.submissions = summaries(call[p].notes \o fn[p].collected)]]
  /\ UNCHANGED <<venues, papers, matches, writer, now, prev, ncalls, source, arg, ret>>

\* line 19: a page request fails; the exception leaves ingest_group
FetchRaise(p) ==
  /\ call[p].pc = "fetch"
  /\ fn[p].state = "request"
  /\ fn' = [fn EXCEPT ![p] = fetch_notes_raise(fn[p])]
  /\ call' = [call EXCEPT ![p].pc = "raised_fetch"]
  /\ UNCHANGED <<venues, papers, matches, writer, now, prev, ncalls, source, arg, ret>>

AfterVenue(c) == IF c.submissions = <<>> THEN "commit1" ELSE "papers"

\* line 22-23: select the venue of the group
VenueSelect(p) ==
  /\ call[p].pc = "venue"
  /\ \E v \in Scalar(venue_by_group(call[p].group_id)) :
       call' = [call EXCEPT ![p] =
                 IF v = 0 THEN [@ EXCEPT !.pc = "venue_insert", !.venue_found = 0]
                 ELSE [@ EXCEPT !.venue = v, !.pc = AfterVenue(call[p]), !.venue_found = v]]
  /\ UNCHANGED <<venues, papers, matches, writer, now, fn, prev, ncalls, source, arg, ret>>

\* (mutant) INSERT unless a committed row of the group exists by now
VenueInsertIfAbsent(p) ==
  /\ call[p].pc = "venue_insert"
  /\ writer \in {0, p}
  /\ IF venue_by_group(call[p].group_id) = {}
     THEN /\ writer' = p
          /\ call' = [call EXCEPT ![p] =
                [@ EXCEPT !.venue = Len(venues) + 1,
                          !.newVenue = <<[group_id |-> call[p].group_id,
                                          name |-> GroupHead(call[p].group_id),
                                          year |-> call[p].year]>>,
                          !.pc = AfterVenue(call[p])]]
     ELSE /\ writer' = writer
          /\ call' = [call EXCEPT ![p] =
                [@ EXCEPT !.venue = Min(venue_by_group(call[p].group_id)),
                          !.pc = AfterVenue(call[p])]]
  /\ UNCHANGED <<venues, papers, matches, now, fn, prev, ncalls, source, arg, ret>>

\* line 24-26: INSERT the venue and flush; the row is the session's own until commit
VenueInsert(p) ==
  /\ call[p].pc = "venue_insert"
  /\ writer \in {0, p}
  /\ writer' = p
  /\ call' = [call EXCEPT ![p] =
                [@ EXCEPT !.venue = Len(venues) + 1,
                          !.newVenue = <<[group_id |-> call[p].group_id,
                                        name |-> IF Truthy(call[p].name) THEN call[p].name
                                                 ELSE GroupHead(call[p].group_id),
                                        year |-> call[p].year]>>,
                          !.pc = AfterVenue(call[p])]]
  /\ UNCHANGED <<venues, papers, matches, now, fn, prev, ncalls, source, arg, ret>>

\* (mutant) only the inserted papers are counted
UpsertPaperCountsInserts(p) ==
  LET c == call[p]
      s == c.submissions[c.idx]
  IN  /\ c.pc = "papers"
      /\ \E found \in Scalar(paper_by_forum(c.venue, s.forum)) :
           call' = [call EXCEPT ![p] =
             [@ EXCEPT
                !.pendPapers = IF found = 0
                               THEN Append(@, [venue_id |-> c.venue, openreview_forum |-> s.forum,
                                               openreview_note |-> s.note, title |-> s.title,
                                               last_refreshed |-> now])
                               ELSE @,
                !.dirty = IF found = 0 THEN @
                          ELSE Append(@, [id |-> found, title |-> s.title, last_refreshed |-> now]),
                !.count = IF found = 0 THEN @ + 1 ELSE @,
                !.idx = @ + 1,
                !.papers_found = Append(@, found),
                !.pc = IF c.idx = Len(c.submissions) THEN "commit1" ELSE "papers"]]
      /\ UNCHANGED <<venues, papers, matches, writer, now, fn, prev, ncalls, source, arg, ret>>

\* line 28-54: one pass of the loop over the summaries
UpsertPaper(p) ==
  LET c == call[p]
      s == c.submissions[c.idx]
  IN  /\ c.pc = "papers"
      /\ \E found \in Scalar(paper_by_forum(c.venue, s.forum)) :
           call' = [call EXCEPT ![p] =
             [@ EXCEPT
                !.pendPapers = IF found = 0
                               THEN Append(@, [venue_id |-> c.venue, openreview_forum |-> s.forum,
                                               openreview_note |-> s.note, title |-> s.title,
                                               last_refreshed |-> now])
                               ELSE @,
                !.dirty = IF found = 0 THEN @
                          ELSE Append(@, [id |-> found, title |-> s.title, last_refreshed |-> now]),
                !.count = @ + 1,
                !.idx = @ + 1,
                !.papers_found = Append(@, found),
                !.pc = IF c.idx = Len(c.submissions) THEN "commit1" ELSE "papers"]]
      /\ UNCHANGED <<venues, papers, matches, writer, now, fn, prev, ncalls, source, arg, ret>>

\* line 56: db.commit() flushes the pending rows and ends the transaction
Commit1(p) ==
  LET c == call[p]
      rows == ApplyDirty(papers, c.dirty) \o c.pendPapers
  IN  /\ c.pc = "commit1"
      /\ writer \in {0, p}
      /\ writer' = 0
      /\ venues' = venues \o c.newVenue
      /\ papers' = rows
      /\ call' = [call EXCEPT ![p] =
                    [@ EXCEPT !.pc = IF c.with_arxiv THEN "load" ELSE "done",
                              !.step2 = rows, !.newVenue = <<>>,
                              !.pendPapers = <<>>, !.dirty = <<>>]]
      /\ UNCHANGED <<matches, now, fn, prev, ncalls, source, arg, ret>>

\* line 60-61: the deadline and the papers of the venue
LoadPapers(p) ==
  /\ call[p].pc = "load"
  /\ call' = [call EXCEPT ![p] =
                [@ EXCEPT !.deadline = now - arxiv_ttl,
                          !.started = now,
                          !.plist = SortedSeq(papers_of_venue(call[p].venue)),
                          !.idx = 1,
                          !.pc = "match"]]
  /\ UNCHANGED <<venues, papers, matches, writer, now, fn, prev, ncalls, source, arg, ret>>

\* line 62-68: the cache check of the next paper; a miss calls the Matcher
MatchCheck(p) ==
  LET c == call[p]
      pid == c.plist[c.idx]
      latest == latest_matched_at(pid)
  IN  /\ c.pc = "match"
      /\ c.idx <= Len(c.plist)
      /\ call' = [call EXCEPT ![p] =
             IF IsFresh(latest, c.deadline)
             THEN [@ EXCEPT !.idx = @ + 1,
                            !.trail = Append(@, [paper |-> pid, latest |-> latest, invoked |-> FALSE,
                                                 aid |-> None, inserted |-> FALSE])]
             ELSE [@ EXCEPT !.pc = "await",
                            !.trail = Append(@, [paper |-> pid, latest |-> latest, invoked |-> TRUE,
                                                 aid |-> None, inserted |-> FALSE])]]
      /\ UNCHANGED <<venues, papers, matches, writer, now, fn, prev, ncalls, source, arg, ret>>

\* (mutant) if aid is not None
StoresMatchNotNone(r) == r.aid # None

\* (mutant) the row is added whatever the Matcher returned
StoresMatchAlways(r) == TRUE

\* if aid: db.add(ArxivMatch(...))
StoresMatch(r) == Truthy(r.aid)

\* line 68-79: find_arxiv_match returns r
MatcherReturn(p, r) ==
  LET c == call[p]
      pid == c.plist[c.idx]
      n == Len(c.trail)
  IN  /\ c.pc = "await"
      /\ call' = [call EXCEPT ![p] =
             [@ EXCEPT
                !.pendMatches = IF StoresMatch(r)
                                THEN Append(@, [paper_id |-> pid, arxiv_id |-> r.aid,
                                                title |-> IF Truthy(r.atitle) THEN r.atitle
                                                          ELSE papers[pid].title,
                                                exact |-> r.exact, score |-> r.score,
                                                matched_at |-> now])
                                ELSE @,
                !.trail = [@ EXCEPT ![n] = [@ EXCEPT !.aid = r.aid, !.inserted = StoresMatch(r)]],
                !.idx = @ + 1,
                !.pc = "match"]]
      /\ UNCHANGED <<venues, papers, matches, writer, now, fn, prev, ncalls, source, arg, ret>>

\* (mutant) the matches added before the failure are committed
MatcherRaiseCommits(p) ==
  /\ call[p].pc = "await"
  /\ matches' = matches \o call[p].pendMatches
  /\ call' = [call EXCEPT ![p] = [@ EXCEPT !.pc = "raised_match", !.pendMatches = <<>>]]
  /\ UNCHANGED <<venues, papers, writer, now, fn, prev, ncalls, source, arg, ret>>

\* line 68: find_arxiv_match raises; the session closes and drops what it held
MatcherRaise(p) ==
  /\ call[p].pc = "await"
  /\ call' = [call EXCEPT ![p] = [@ EXCEPT !.pc = "raised_match", !.pendMatches = <<>>]]
  /\ UNCHANGED <<venues, papers, matches, writer, now, fn, prev, ncalls, source, arg, ret>>

\* (mutant) a paper's old row is overwritten by its new match
InsertMatchesInPlace(rows, pending) ==
  LET new(pid) == {k \in 1..Len(pending) : pending[k].paper_id = pid}
      kept == [i \in 1..Len(rows) |->
                 IF new(rows[i].paper_id) = {} THEN rows[i]
                 ELSE pending[Min(new(rows[i].paper_id))]]
      fresh == SelectSeq(pending, LAMBDA m : \A i \in 1..Len(rows) : rows[i].paper_id # m.paper_id)
  IN  kept \o fresh

\* the INSERTs of the pending ArxivMatch rows
InsertMatches(rows, pending) == rows \o pending

\* line 80: db.commit() after the loop
Commit2(p) ==
  LET c == call[p]
  IN  /\ c.pc = "match"
      /\ c.idx > Len(c.plist)
      /\ writer \in {0, p}
      /\ matches' = InsertMatches(matches, c.pendMatches)
      /\ call' = [call EXCEPT ![p] = [@ EXCEPT !.pc = "done", !.pendMatches = <<>>]]
      /\ UNCHANGED <<venues, papers, writer, now, fn, prev, ncalls, source, arg, ret>>

-----------------------------------------------------------------------------
(* Non-overlapping ingest calls *)

Init ==
  /\ venues = <<>>
  /\ papers = <<>>
  /\ matches = <<>>
  /\ writer = 0
  /\ now = 0
  /\ call = [p \in Procs |-> NoCall]
  /\ fn = [p \in Procs |-> fetch_notes_init(<<>>)]
  /\ prev = NoPrev
  /\ ncalls = 0
  /\ source = 0
  /\ arg = <<>>
  /\ ret = <<>>

\* The first call starts at time 0, a later one some time after the last.
Gap == IF ncalls = 0 THEN {0} ELSE Elapse

Next ==
  \/ \E g \in Groups, w \in BOOLEAN, d \in Gap : Begin(1, g, <<None, None>>, w, d)
  \/ \E notes \in Pages : FetchPage(1, notes)
  \/ FetchRaise(1)
  \/ VenueSelect(1)
  \/ VenueInsert(1)
  \/ UpsertPaper(1)
  \/ Commit1(1)
  \/ LoadPapers(1)
  \/ MatchCheck(1)
  \/ \E r \in MatcherResults : MatcherReturn(1, r)
  \/ MatcherRaise(1)
  \/ Commit2(1)

Spec == Init /\ [][Next]_vars

-----------------------------------------------------------------------------
(* Claims about non-overlapping ingest calls *)

Finished(c) == c.pc = "done"

ForumsOf(c) == {c.submissions[i].forum : i \in 1..Len(c.submissions)}

RowsWithForum(rows, forum) == {i \in 1..Len(rows) : rows[i].openreview_forum = forum}

RowsOfPair(rows, venue_id, forum) ==
  {i \in 1..Len(rows) : rows[i].venue_id = venue_id /\ rows[i].openreview_forum = forum}

SameButRefreshed(old, new) ==
  /\ new.venue_id = old.venue_id
  /\ new.openreview_forum = old.openreview_forum
  /\ new.openreview_note = old.openreview_note
  /\ new.title = old.title
  /\ new.last_refreshed > old.last_refreshed

\* C1: when two consecutive calls ingest the same group and are served the
\* same records, then after the second call there is one Venue row of the
\* group and one Paper row per distinct forum of the records, and against
\* the end of the first call every such row has a later last_refreshed and
\* is otherwise unchanged.
C1_Idempotent ==
  LET c == call[1]
  IN  (/\ Finished(c) /\ prev.pc = "done"
       /\ prev.group_id = c.group_id /\ prev.served = c.served)
      => /\ Cardinality(venue_by_group(c.group_id)) = 1
         /\ Len(papers) = Len(c.before.papers)
         /\ \A f \in ForumsOf(c) :
              /\ Cardinality(RowsWithForum(papers, f)) = 1
              /\ \A i \in RowsWithForum(papers, f) :
                   /\ i <= Len(c.before.papers)
                   /\ SameButRefreshed(c.before.papers[i], papers[i])

\* C2: at most one Paper row per (venue, forum) pair, and after a successful
\* call exactly one row for each pair (venue of the call, forum it processed).
C2_OnePaperPerPair ==
  /\ \A i, j \in 1..Len(papers) :
       (papers[i].venue_id = papers[j].venue_id
        /\ papers[i].openreview_forum = papers[j].openreview_forum) => i = j
  /\ Finished(call[1]) =>
       \A f \in ForumsOf(call[1]) : Cardinality(RowsOfPair(papers, call[1].venue, f)) = 1

\* the matched_at of the most recent row of a paper among `rows`
LatestIn(rows, paper_id) ==
  LET own == {i \in 1..Len(rows) : rows[i].paper_id = paper_id}
  IN  IF own = {} THEN NoRow ELSE Max({rows[i].matched_at : i \in own})

PendingFor(c, paper_id) == {k \in 1..Len(c.pendMatches) : c.pendMatches[k].paper_id = paper_id}

\* the rows of a paper committed since the call began
NewRowsFor(c, paper_id) ==
  {k \in (Len(c.before.matches) + 1)..Len(matches) : matches[k].paper_id = paper_id}

\* C3: a paper whose most recent match is younger than the TTL of 14 days
\* when the matching phase starts is skipped: the Matcher is not invoked for
\* it and the call adds no match row for it; at 15 days the Matcher is invoked.
C3_CacheHit ==
  \A p \in Procs : \A i \in 1..Len(call[p].trail) :
    LET c == call[p]
        e == c.trail[i]
        latest == LatestIn(c.before.matches, e.paper)
    IN  /\ (latest # NoRow /\ latest > c.started - 14 * Day)
           => /\ ~e.invoked
              /\ PendingFor(c, e.paper) = {}
              /\ NewRowsFor(c, e.paper) = {}
        /\ (latest # NoRow /\ c.started - latest = 15 * Day) => e.invoked

\* C3 (witness): a call skipped a paper whose match was 13 days old
C3_Witness ==
  /\ Finished(call[1])
  /\ \E i \in 1..Len(call[1].trail) :
       /\ LatestIn(call[1].before.matches, call[1].trail[i].paper) = call[1].started - 13 * Day
       /\ ~call[1].trail[i].invoked

\* C4: a paper without a match row, or whose most recent row is as old as the
\* TTL, has the Matcher invoked; a row is added exactly when the Matcher
\* returned a non-empty identifier, and no stored row is touched otherwise.
C4_CacheMiss ==
  \A p \in Procs : \A i \in 1..Len(call[p].trail) :
    LET c == call[p]
        e == c.trail[i]
        latest == LatestIn(c.before.matches, e.paper)
        returned == i < Len(c.trail) \/ c.pc # "await"
        added == Cardinality(PendingFor(c, e.paper)) + Cardinality(NewRowsFor(c, e.paper))
    IN  /\ (latest = NoRow \/ latest <= c.started - 14 * Day) => e.invoked
        /\ returned => (e.inserted <=> (e.invoked /\ e.aid # None /\ e.aid # ""))
        /\ c.pc # "raised_match" => added = (IF e.inserted THEN 1 ELSE 0)
        /\ \A k \in 1..Len(c.before.matches) : matches[k] = c.before.matches[k]

\* C4 (witness): 13 days after a call in which the Matcher found nothing for
\* a paper, the next call of the venue invoked the Matcher for it again
C4_Witness ==
  /\ Finished(call[1]) /\ prev.pc = "done"
  /\ prev.group_id = call[1].group_id
  /\ call[1].started = 13 * Day
  /\ \E i \in 1..Len(call[1].trail) :
       /\ call[1].trail[i].paper \in prev.nomatch
       /\ call[1].trail[i].invoked
       /\ matches_of_paper(call[1].trail[i].paper) = {}

LastEntry(c) == c.trail[Len(c.trail)]

\* C5: no step removes a Venue, Paper or ArxivMatch row or changes a stored
\* ArxivMatch row, and a match that is found becomes one more row.
C5_AppendOnly ==
  [][/\ Len(venues') >= Len(venues)
     /\ \A i \in 1..Len(venues) : venues'[i].group_id = venues[i].group_id
     /\ Len(papers') >= Len(papers)
     /\ \A i \in 1..Len(papers) :
          /\ papers'[i].venue_id = papers[i].venue_id
          /\ papers'[i].openreview_forum = papers[i].openreview_forum
          /\ papers'[i].openreview_note = papers[i].openreview_note
     /\ Len(matches') >= Len(matches)
     /\ \A i \in 1..Len(matches) : matches'[i] = matches[i]
     /\ \A p \in Procs :
          /\ (call[p].pc = "await" /\ call'[p].pc = "match" /\ LastEntry(call'[p]).inserted)
             => Len(call'[p].pendMatches) = Len(call[p].pendMatches) + 1
          /\ (call[p].pc = "match" /\ call'[p].pc = "done")
             => Len(matches') = Len(matches) + Len(call[p].pendMatches)
    ]_vars

\* C5 (witness): a paper has an old match row and a later one beside it
C5_Witness ==
  \E i, j \in 1..Len(matches) :
    /\ i < j
    /\ matches[i].paper_id = matches[j].paper_id
    /\ matches[i].matched_at < matches[j].matched_at

StoreIs(store) == venues = store.venues /\ papers = store.papers /\ matches = store.matches

\* C6: when a page request of the fetch fails, the call ends with the
\* failure, has no record set, and leaves the store as it found it.
C6_FetchFailureTotal ==
  \A p \in Procs :
    fn[p].state = "raised"
    => /\ call[p].pc = "raised_fetch"
       /\ call[p].submissions = <<>>
       /\ call[p].count = 0
       /\ StoreIs(call[p].before)

\* C6 (witness): the request of the second category failed after the first
\* had returned records, with rows of an earlier call in the store
C6_Witness ==
  /\ fn[1].state = "raised"
  /\ call[1].notes # <<>>
  /\ call[1].before.papers # <<>>

\* C7: when the Matcher fails in the loop, no match row of that call is
\* stored, and the papers committed before the loop stay.
C7_MatchFailure ==
  \A p \in Procs :
    call[p].pc = "raised_match"
    => /\ matches = call[p].before.matches
       /\ papers = call[p].step2
       /\ \A f \in ForumsOf(call[p]) :
            \E i \in RowsWithForum(papers, f) : papers[i].last_refreshed = call[p].started

\* C7 (witness): the Matcher failed after a match had been added for an
\* earlier paper, in a call that wrote papers
C7_Witness ==
  /\ call[1].pc = "raised_match"
  /\ \E i \in 1..Len(call[1].trail) : call[1].trail[i].inserted
  /\ papers # call[1].before.papers

TrailPapers(c) == {c.trail[i].paper : i \in 1..Len(c.trail)}

\* C10: with matching on, a finished call has applied the cache policy once
\* to each paper of its venue and to no other paper; with matching off it
\* never invokes the Matcher and adds no match row.
C10_MatchScope ==
  \A p \in Procs :
    LET c == call[p]
        own == {i \in 1..Len(papers) : papers[i].venue_id = c.venue}
    IN  /\ TrailPapers(c) \subseteq own
        /\ Cardinality(TrailPapers(c)) = Len(c.trail)
        /\ (Finished(c) /\ c.with_arxiv) => TrailPapers(c) = own
        /\ (c.pc # "idle" /\ ~c.with_arxiv)
           => c.trail = <<>> /\ c.pendMatches = <<>> /\ matches = c.before.matches

\* C10 (witness): the policy was applied to a paper of an earlier call that
\* this call's fetch did not return
C10_Witness ==
  /\ Finished(call[1]) /\ call[1].with_arxiv
  /\ \E i \in 1..Len(call[1].trail) :
       /\ call[1].trail[i].paper <= Len(call[1].before.papers)
       /\ papers[call[1].trail[i].paper].openreview_forum \notin ForumsOf(call[1])

-----------------------------------------------------------------------------
(* Two ingest calls at once, each in a process and a session of its own *)

\* A store no call has written, or one that holds the venue already.
InitConc ==
  /\ venues \in {<<>>, <<[group_id |-> "ICLR.cc/2024/Conference", name |-> "ICLR.cc", year |-> None]>>}
  /\ papers = <<>>
  /\ matches = <<>>
  /\ writer = 0
  /\ now = 0
  /\ call = [p \in Procs |-> NoCall]
  /\ fn = [p \in Procs |-> fetch_notes_init(<<>>)]
  /\ prev = NoPrev
  /\ ncalls = 0
  /\ source = 0
  /\ arg = <<>>
  /\ ret = <<>>

\* The pages served to the concurrent calls.
ConcPages == {<<>>, <<[id |-> "n1", forum |-> "f1", title |-> "t1"]>>}

NextConc ==
  \E p \in Procs :
    \/ \E g \in Groups, w \in BOOLEAN : call[p].pc = "idle" /\ Begin(p, g, <<None, None>>, w, 0)
    \/ \E notes \in ConcPages : FetchPage(p, notes)
    \/ FetchRaise(p)
    \/ VenueSelect(p)
    \/ VenueInsert(p)
    \/ UpsertPaper(p)
    \/ Commit1(p)
    \/ LoadPapers(p)
    \/ MatchCheck(p)
    \/ \E r \in MatcherResults : MatcherReturn(p, r)
    \/ MatcherRaise(p)
    \/ Commit2(p)

SpecConc == InitConc /\ [][NextConc]_vars

\* the call is past its commit of venue and papers
Committed1(c) == c.pc \in {"load", "match", "await", "done", "raised_match"}

FoundAbsent(c, forum) ==
  \E i \in 1..Len(c.papers_found) : c.submissions[i].forum = forum /\ c.papers_found[i] = 0

\* C8: when two calls for one group both read that the venue is absent, both
\* insert it: two Venue rows of the group are stored; and when both read
\* that a forum is absent, both insert a Paper for it.
C8_RaceDuplicates ==
  \A p, q \in Procs :
    LET c == call[p]
        d == call[q]
    IN  (p # q /\ Committed1(c) /\ Committed1(d) /\ c.group_id = d.group_id)
        => /\ (c.venue_found = 0 /\ d.venue_found = 0)
              => Cardinality(venue_by_group(c.group_id)) >= 2
           /\ \A f \in ForumsOf(c) \cap ForumsOf(d) :
                (FoundAbsent(c, f) /\ FoundAbsent(d, f))
                => Cardinality(RowsWithForum(papers, f)) >= 2

\* C8 (witness): both calls are done, two Venue rows hold the one group id
C8_Witness ==
  /\ Finished(call[1]) /\ Finished(call[2])
  /\ call[1].group_id = call[2].group_id
  /\ call[1].venue_found = 0 /\ call[2].venue_found = 0
  /\ Cardinality(venue_by_group(call[1].group_id)) = 2

\* C8 (second witness): two Paper rows of one venue hold the one forum
C8_WitnessPapers ==
  /\ Finished(call[1]) /\ Finished(call[2])
  /\ \E i, j \in 1..Len(papers) :
       /\ i # j
       /\ papers[i].venue_id = papers[j].venue_id
       /\ papers[i].openreview_forum = papers[j].openreview_forum

-----------------------------------------------------------------------------
(* fetch_notes against an endpoint that pages as it likes *)

\* Sizes of the endpoint's collection.
Sources == {0, 1, page_size - 1, page_size, page_size + 1, 2 * page_size, 2 * page_size + 1}

InitFetch ==
  /\ venues = <<>>
  /\ papers = <<>>
  /\ matches = <<>>
  /\ writer = 0
  /\ now = 0
  /\ call = [p \in Procs |-> NoCall]
  /\ fn = [p \in Procs |-> fetch_notes_init(<<"ICLR.cc/2024/Conference", "Submission">>)]
  /\ prev = NoPrev
  /\ ncalls = 0
  /\ source \in Sources
  /\ arg = <<>>
  /\ ret = <<>>

\* what an endpoint holding `source` records serves at an offset
Served(offset) ==
  IF offset >= source THEN 0
  ELSE IF source - offset < page_size THEN source - offset ELSE page_size

\* the page lengths tried at an offset
PageLens(offset) == {0, 1, page_size - 1, page_size, Served(offset)}

\* records are named by their place in the collection
PageAt(offset, n) == [k \in 1..n |-> offset + k]

\* line 71-80: the response to the request at the current offset
NotesPage(n) ==
  /\ fn[1].state = "request"
  /\ Len(fn[1].requests) < MaxRequests
  /\ fn' = [fn EXCEPT ![1] = fetch_notes_page(fn[1], PageAt(fn[1].offset, n))]
  /\ UNCHANGED <<venues, papers, matches, writer, now, call, prev, ncalls, source, arg, ret>>

\* line 72: raise_for_status raises
NotesRaise ==
  /\ fn[1].state = "request"
  /\ Len(fn[1].requests) < MaxRequests
  /\ fn' = [fn EXCEPT ![1] = fetch_notes_raise(fn[1])]
  /\ UNCHANGED <<venues, papers, matches, writer, now, call, prev, ncalls, source, arg, ret>>

NextFetch ==
  \/ \E n \in PageLens(fn[1].offset) : NotesPage(n)
  \/ NotesRaise

SpecFetch == InitFetch /\ [][NextFetch]_vars

RECURSIVE ReturnedBefore(_, _)
ReturnedBefore(requests, k) ==
  IF k <= 1 THEN 0 ELSE ReturnedBefore(requests, k - 1) + requests[k - 1].returned

\* C9: every request asks for 200 records at the offset that is the number
\* of records returned so far, the first at 0; a request follows only full
\* pages, and a page of fewer than 200 records, or none, ends the fetch.
C9_Pagination ==
  LET r == fn[1].requests
      n == Len(r)
  IN  /\ \A k \in 1..n :
           /\ r[k].limit = 200
           /\ r[k].offset = ReturnedBefore(r, k)
           /\ k < n => r[k].returned = 200
      /\ (n >= 1 /\ r[n].returned \in 0..199) => fn[1].state = "returned"
      /\ fn[1].state = "returned" => (n >= 1 /\ r[n].returned \in 0..199)
      /\ (n >= 1 /\ r[1].returned \in 0..199) => n = 1
      /\ (n >= 2 /\ r[1].returned = 200 /\ r[2].returned = 0) => n = 2
      /\ fn[1].state = "returned" => Len(fn[1].collected) = ReturnedBefore(r, n + 1)

\* C9 (witness): a full page, then an empty one: returned after two requests
C9_Witness ==
  /\ fn[1].state = "returned"
  /\ Len(fn[1].requests) = 2
  /\ fn[1].requests[1].returned = 200
  /\ fn[1].requests[2].returned = 0

-----------------------------------------------------------------------------
(* Ingest calls that pass a display name and a year *)

\* The name argument: not given, empty, or one of two names.
Names == {None, "", "ICLR 2024", "ICLR"}

\* The year argument: not given or a year.
Years == {None, "2024", "2025"}

\* The pages served to these calls.
VenuePages == {<<>>, <<[id |-> "n1", forum |-> "f1", title |-> "t1"]>>}

NextVenue ==
  \/ \E g \in Groups, n \in Names, y \in Years, d \in Gap : Begin(1, g, <<n, y>>, FALSE, d)
  \/ \E notes \in VenuePages : FetchPage(1, notes)
  \/ FetchRaise(1)
  \/ VenueSelect(1)
  \/ VenueInsert(1)
  \/ UpsertPaper(1)
  \/ Commit1(1)

SpecVenue == Init /\ [][NextVenue]_vars

\* name or group_id.split("/")[0]
NameGiven(c) == IF Truthy(c.name) THEN c.name ELSE GroupHead(c.group_id)

\* C11: after a successful ingest of a group one Venue row of the group
\* exists; a call that found none created it with the given name (or the
\* default derived from the group id) and the given year; a call that found
\* the row stored the name and the year it was given in it.
C11_VenueLifecycle ==
  LET c == call[1]
  IN  Finished(c)
      => /\ Cardinality(venue_by_group(c.group_id)) = 1
         /\ \A v \in venue_by_group(c.group_id) :
              IF c.venue_found = 0
              THEN venues[v].name = NameGiven(c) /\ venues[v].year = c.year
              ELSE /\ Truthy(c.name) => venues[v].name = c.name
                   /\ c.year # None => venues[v].year = c.year

\* C11 (what the code keeps): one row per ingested group, as the first call
\* of the group made it
C11_CreatedOnce ==
  LET c == call[1]
  IN  Finished(c)
      => /\ Cardinality(venue_by_group(c.group_id)) = 1
         /\ \A v \in venue_by_group(c.group_id) :
              /\ c.venue_found = 0 => (venues[v].name = NameGiven(c) /\ venues[v].year = c.year)
              /\ c.venue_found # 0 => (c.venue_found = v /\ venues[v] = c.before.venues[v])

-----------------------------------------------------------------------------
(* arxiv_matcher.py *)

MaxTitleLen == 3     \* characters of a paper title
MaxCandLen == 2      \* characters of a candidate's title
MaxFeed == 2         \* candidates the search returns

\* The characters of a title: letters in two cases, a space, a punctuation mark.
Chars == {"a", "A", "b", " ", "-"}

\* ch.isalnum()
IsAlnum(ch) == ch \in {"a", "A", "b"}

\* ch.isspace()
IsSpace(ch) == ch = " "

\* (mutant) the case is kept
LowerKept(ch) == ch

\* ch.lower()
Lower(ch) == IF ch = "A" THEN "a" ELSE ch

\* "".join(ch.lower() for ch in s if ch.isalnum() or ch.isspace())
RECURSIVE kept_lower(_)
kept_lower(s) ==
  IF s = <<>> THEN <<>>
  ELSE IF IsAlnum(Head(s)) \/ IsSpace(Head(s))
       THEN <<Lower(Head(s))>> \o kept_lower(Tail(s))
       ELSE kept_lower(Tail(s))

\* the length of the run of non-space characters s starts with
RECURSIVE WordLen(_)
WordLen(s) == IF s = <<>> \/ IsSpace(Head(s)) THEN 0 ELSE 1 + WordLen(Tail(s))

\* str.split(): the words between runs of whitespace
RECURSIVE split(_)
split(s) ==
  IF s = <<>> THEN <<>>
  ELSE IF IsSpace(Head(s)) THEN split(Tail(s))
       ELSE <<SubSeq(s, 1, WordLen(s))>> \o split(SubSeq(s, WordLen(s) + 1, Len(s)))

\* " ".join(words)
RECURSIVE join(_)
join(words) ==
  IF words = <<>> THEN <<>>
  ELSE IF Len(words) = 1 THEN words[1]
       ELSE words[1] \o <<" ">> \o join(Tail(words))

normalize_title(s) == join(split(kept_lower(s)))

\* the length of the common run of a from i and b from j, inside the windows
RECURSIVE RunLen(_, _, _, _, _, _)
RunLen(a, b, i, j, ahi, bhi) ==
  IF i > ahi \/ j > bhi THEN 0
  ELSE IF a[i] # b[j] THEN 0
       ELSE 1 + RunLen(a, b, i + 1, j + 1, ahi, bhi)

\* SequenceMatcher.find_longest_match without junk: the longest common block
\* of a[alo..ahi] and b[blo..bhi], the one starting earliest in a, and among
\* those the one starting earliest in b
find_longest_match(a, b, alo, ahi, blo, bhi) ==
  LET k(i, j) == RunLen(a, b, i, j, ahi, bhi)
      best == Max({k(i, j) : i \in alo..ahi, j \in blo..bhi})
      i0 == Min({i \in alo..ahi : \E j \in blo..bhi : k(i, j) = best})
      j0 == Min({j \in blo..bhi : k(i0, j) = best})
  IN  [i |-> i0, j |-> j0, k |-> best]

\* SequenceMatcher.get_matching_blocks: the sizes of the blocks, summed
RECURSIVE matching(_, _, _, _, _, _)
matching(a, b, alo, ahi, blo, bhi) ==
  IF alo > ahi \/ blo > bhi THEN 0
  ELSE LET m == find_longest_match(a, b, alo, ahi, blo, bhi)
       IN  IF m.k = 0 THEN 0
           ELSE m.k + matching(a, b, alo, m.i - 1, blo, m.j - 1)
                    + matching(a, b, m.i + m.k, ahi, m.j + m.k, bhi)

\* SequenceMatcher.ratio(): 2.0 * matches / length, 1.0 for two empty
\* strings, kept as the fraction <<numerator, denominator>>
ratio(a, b) ==
  IF Len(a) + Len(b) = 0 THEN <<1, 1>>
  ELSE <<2 * matching(a, b, 1, Len(a), 1, Len(b)), Len(a) + Len(b)>>

similarity(a, b) == ratio(normalize_title(a), normalize_title(b))

\* comparison of two fractions with positive denominators
FracGt(s, t) == s[1] * t[2] > t[1] * s[2]

FracEq(s, t) == s[1] * t[2] = t[1] * s[2]
\* (None, None, False, 0.0)
NoMatch == [aid |-> None, atitle |-> None, exact |-> FALSE, score |-> <<0, 1>>]

\* (mutant) if s >= best[3]
BeatsOrTies(s, best) == ~FracGt(best.score, s)

\* if s > best[3]
Beats(s, best) == FracGt(s, best.score)

\* line 52-58: the loop over the candidates from the k-th on
RECURSIVE match_loop(_, _, _, _)
match_loop(title, candidates, k, best) ==
  IF k > Len(candidates) THEN best
  ELSE LET aid == candidates[k].aid
           atitle == candidates[k].title
           s == similarity(title, atitle)
       IN  IF normalize_title(atitle) = normalize_title(title)
           THEN [aid |-> aid, atitle |-> atitle, exact |-> TRUE, score |-> <<1, 1>>]
           ELSE match_loop(title, candidates, k + 1,
                           IF Beats(s, best)
                           THEN [aid |-> aid, atitle |-> atitle, exact |-> FALSE, score |-> s]
                           ELSE best)

\* find_arxiv_match once query_arxiv_by_title has returned `candidates`
find_arxiv_match(title, candidates) ==
  IF candidates = <<>> THEN NoMatch
  ELSE match_loop(title, candidates, 1, NoMatch)

\* Paper titles.
Titles == SeqsUpTo(Chars, MaxTitleLen)

\* title_text.strip(): a candidate's title has no space at either end
Stripped(t) == t = <<>> \/ (~IsSpace(t[1]) /\ ~IsSpace(t[Len(t)]))

CandTitles == {t \in SeqsUpTo(Chars, MaxCandLen) : Stripped(t)}

\* the arXiv identifier of the k-th entry of the feed
ArxivIds == <<"2401.00001", "2401.00002", "2401.00003", "2401.00004">>

\* What query_arxiv_by_title can return: a list of (arxiv_id, title).
Feeds(n) ==
  {[k \in 1..Len(ts) |-> [aid |-> ArxivIds[k], title |-> ts[k]]] : ts \in SeqsUpTo(CandTitles, n)}

InitMatch ==
  /\ venues = <<>>
  /\ papers = <<>>
  /\ matches = <<>>
  /\ writer = 0
  /\ now = 0
  /\ call = [p \in Procs |-> NoCall]
  /\ fn = [p \in Procs |-> fetch_notes_init(<<>>)]
  /\ prev = NoPrev
  /\ ncalls = 0
  /\ source = 0
  /\ arg \in [title : Titles, candidates : Feeds(MaxFeed)]
  /\ ret = <<>>

\* line 43-58: the call returns
FindArxivMatch ==
  /\ ret = <<>>
  /\ ret' = <<find_arxiv_match(arg.title, arg.candidates)>>
  /\ UNCHANGED <<venues, papers, matches, writer, now, call, fn, prev, ncalls, source, arg>>

NextMatch == FindArxivMatch

SpecMatch == InitMatch /\ [][NextMatch]_vars
\* The normalized title as the claims word it: lowercased, characters that
\* are neither alphanumeric nor whitespace removed, whitespace runs collapsed
\* to one space (none at either end).
Normalized(s) ==
  LET keep == {i \in 1..Len(s) : s[i] \in {"a", "A", "b", " "}}
      low(i) == IF s[i] = "A" THEN "a" ELSE s[i]
      inner(i) == /\ \E j \in keep : j < i /\ s[j] # " "
                  /\ \E j \in keep : j > i /\ s[j] # " "
                  /\ \A j \in keep : j < i => \E h \in keep : (j <= h /\ h < i /\ s[h] # " ")
      stay == {i \in keep : s[i] # " " \/ inner(i)}
      order == SortedSeq(stay)
  IN  [k \in 1..Len(order) |-> low(order[k])]

ExactOnes == {i \in 1..Len(arg.candidates) : Normalized(arg.candidates[i].title) = Normalized(arg.title)}

ScoreOf(i) == similarity(arg.title, arg.candidates[i].title)

\* C12: if some candidate's normalized title equals the normalized query
\* title, find_arxiv_match returns the first such candidate of the feed with
\* exact = true and score 1.0, whatever the other candidates score.
C12_ExactShortCircuit ==
  (Len(ret) = 1 /\ ExactOnes # {})
  => LET r == ret[1]
         c == arg.candidates[Min(ExactOnes)]
     IN  /\ r.aid = c.aid
         /\ r.atitle = c.title
         /\ r.exact = TRUE
         /\ r.score = <<1, 1>>

\* C12 (witness): the second candidate is returned as exact though its title
\* is spelled differently from the query and the first candidate scored above 0
C12_Witness ==
  /\ Len(ret) = 1
  /\ Len(arg.candidates) = 2
  /\ ret[1].exact
  /\ ret[1].aid = arg.candidates[2].aid
  /\ arg.candidates[2].title # arg.title
  /\ FracGt(ScoreOf(1), <<0, 1>>)

\* the candidates with the highest similarity score
TopOnes == {i \in 1..Len(arg.candidates) : \A j \in 1..Len(arg.candidates) : ~FracGt(ScoreOf(j), ScoreOf(i))}

\* C13: when no candidate is an exact match, the result is the earliest of
\* the candidates with the highest similarity score, with exact = false and
\* that score; with no candidate, or none scoring above 0, it is no match:
\* identifier and title undefined, exact = false, score 0.0.
C13_FuzzySelection ==
  (Len(ret) = 1 /\ ExactOnes = {})
  => LET r == ret[1]
     IN  IF \A i \in 1..Len(arg.candidates) : ~FracGt(ScoreOf(i), <<0, 1>>)
         THEN /\ r.aid = None
              /\ r.atitle = None
              /\ r.exact = FALSE
              /\ r.score = <<0, 1>>
         ELSE LET c == arg.candidates[Min(TopOnes)]
              IN  /\ r.aid = c.aid
                  /\ r.atitle = c.title
                  /\ r.exact = FALSE
                  /\ FracEq(r.score, ScoreOf(Min(TopOnes)))

\* C13 (witness): two candidates with different titles tie at the highest
\* score, below 1, and the first is returned
C13_Witness ==
  /\ Len(ret) = 1
  /\ Len(arg.candidates) = 2
  /\ ExactOnes = {}
  /\ TopOnes = {1, 2}
  /\ normalize_title(arg.candidates[1].title) # normalize_title(arg.candidates[2].title)
  /\ FracGt(ScoreOf(1), <<0, 1>>)
  /\ ret[1].aid = arg.candidates[1].aid
  /\ ~ret[1].exact

\* C13 (second witness): candidates were returned, none scored above 0
C13_WitnessNoMatch ==
  /\ Len(ret) = 1
  /\ arg.candidates # <<>>
  /\ ret[1].aid = None

-----------------------------------------------------------------------------
(* fetch_submissions_for_group over categories of several records *)

MaxCategoryLen == 2  \* records one invitation category holds

\* The records of a category, served as one page shorter than page_size.
CategoryPages == SeqsUpTo(Notes, MaxCategoryLen)

NextSubmissions ==
  \/ \E g \in Groups : Begin(1, g, <<None, None>>, FALSE, 0)
  \/ \E notes \in CategoryPages : FetchPage(1, notes)
  \/ FetchRaise(1)

SpecSubmissions == Init /\ [][NextSubmissions]_vars

\* the records of all the categories a call fetched, in the order fetched
RECURSIVE Fetched(_)
Fetched(served) ==
  IF served = <<>> THEN <<>> ELSE Head(served).notes \o Fetched(Tail(served))

LastCopy(all, id) == all[Max({i \in 1..Len(all) : all[i].id = id})]

\* C14: the result of fetch_submissions_for_group holds one summary per
\* distinct record id among the records fetched over the categories, built
\* from the last copy fetched of the record of that id.
C14_Dedup ==
  LET c == call[1]
      all == Fetched(c.served)
      ids == {all[i].id : i \in 1..Len(all)}
  IN  c.pc = "venue"
      => /\ Len(c.submissions) = Cardinality(ids)
         /\ \A id \in ids :
              \E k \in 1..Len(c.submissions) :
                /\ c.submissions[k].note = id
                /\ c.submissions[k] = summarize(LastCopy(all, id))
                /\ \A h \in 1..Len(c.submissions) : c.submissions[h].note = id => h = k

\* C14 (witness): a record id came in both categories with different
\* content, between them a record of another id; the summary has the later title
C14_Witness ==
  LET c == call[1]
      all == Fetched(c.served)
  IN  /\ c.pc = "venue"
      /\ Len(c.served) = 2
      /\ c.served[1].notes # <<>>
      /\ c.served[2].notes # <<>>
      /\ Len(c.submissions) = 2
      /\ \E i, j \in 1..Len(all) :
           /\ i + 1 < j
           /\ all[i].id = all[j].id
           /\ all[i].title # all[j].title
           /\ \E k \in 1..Len(c.submissions) :
                c.submissions[k].note = all[j].id /\ c.submissions[k].title = all[j].title

-----------------------------------------------------------------------------
(* openreview_client.py: extract_keywords *)

MaxKwLen == 3        \* characters of a keywords string
MaxKwList == 2       \* elements of a keywords list
MaxKeysPresent == 2  \* key-name variants one content holds

\* keys = ["keywords", "Keywords", "key_areas", "Key Areas", "Key Area(s)"]
keys == <<"keywords", "Keywords", "key_areas", "Key Areas", "Key Area(s)">>

KeyNames == {keys[k] : k \in 1..Len(keys)}

\* str(v) of an integer: its decimal digits
Digits == <<"0", "1", "2", "3", "4", "5", "6", "7", "8", "9">>

RECURSIVE str_int(_)
str_int(n) == IF n < 10 THEN <<Digits[n + 1]>> ELSE str_int(n \div 10) \o <<Digits[(n % 10) + 1]>>

\* str.strip(): whitespace removed at both ends
RECURSIVE lstrip(_)
lstrip(s) == IF s # <<>> /\ IsSpace(Head(s)) THEN lstrip(Tail(s)) ELSE s

RECURSIVE rstrip(_)
rstrip(s) == IF s # <<>> /\ IsSpace(s[Len(s)]) THEN rstrip(SubSeq(s, 1, Len(s) - 1)) ELSE s

strip(s) == rstrip(lstrip(s))

\* value.replace(";", ",")
replace_semicolons(s) == [i \in 1..Len(s) |-> IF s[i] = ";" THEN "," ELSE s[i]]

\* str.split(","): the pieces between commas, empty ones included
RECURSIVE split_commas(_)
split_commas(s) ==
  LET commas == {i \in 1..Len(s) : s[i] = ","}
  IN  IF commas = {} THEN <<s>>
      ELSE <<SubSeq(s, 1, Min(commas) - 1)>> \o split_commas(SubSeq(s, Min(commas) + 1, Len(s)))

\* (mutant) empty tokens are kept
tokens_with_empty(value) ==
  LET pieces == split_commas(replace_semicolons(value))
  IN  [i \in 1..Len(pieces) |-> strip(pieces[i])]

\* [token.strip() for token in value.replace(";", ",").split(",") if token.strip()]
tokens(value) ==
  LET pieces == split_commas(replace_semicolons(value))
      stripped == [i \in 1..Len(pieces) |-> strip(pieces[i])]
  IN  SelectSeq(stripped, LAMBDA t : t # <<>>)

\* str(v) of a list element: a string as it is, an integer in decimal
str(v) == IF v.kind = "int" THEN str_int(v.n) ELSE v.s

\* [str(v).strip() for v in value]
stripped_elements(value) == [i \in 1..Len(value) |-> strip(str(value[i]))]

\* (mutant) the first variant present decides: any other value gives []
extract_first_present(content, k) ==
  LET present == {h \in k..Len(keys) : content[keys[h]].kind # "absent"}
      value == content[keys[Min(present)]]
  IN  IF present = {} THEN <<>>
      ELSE IF value.kind = "list" THEN stripped_elements(value.l)
      ELSE IF value.kind = "str" THEN tokens(value.s)
      ELSE <<>>

\* line 49-56: the loop over the key names from the k-th on
RECURSIVE extract_from(_, _)
extract_from(content, k) ==
  IF k > Len(keys) THEN <<>>
  ELSE LET value == content[keys[k]]
       IN  IF value.kind = "list" THEN stripped_elements(value.l)
           ELSE IF value.kind = "str" THEN tokens(value.s)
           ELSE extract_from(content, k + 1)

extract_keywords(content) == extract_from(content, 1)
\* The characters of a keywords string.
KwChars == {"L", ",", ";", " "}

\* "LLM, Safety; RLHF"
KwExample ==
  <<"L", "L", "M", ",", " ", "S", "a", "f", "e", "t", "y", ";", " ", "R", "L", "H", "F">>

KwStrings == SeqsUpTo(KwChars, MaxKwLen) \cup {KwExample}

\* The elements of a keywords list: strings and integers.
KwElems ==
  { [kind |-> "str", s |-> <<"L">>, n |-> 0],
    [kind |-> "str", s |-> <<" ", "L", " ">>, n |-> 0],
    [kind |-> "str", s |-> <<" ">>, n |-> 0],
    [kind |-> "int", s |-> <<>>, n |-> 12] }

\* A key that content does not hold.
Absent == [kind |-> "absent", s |-> <<>>, l |-> <<>>]

\* The values content holds under a key: None, a {"value": ...} wrapper, a
\* string, a list.
KwValues ==
  {[kind |-> "none", s |-> <<>>, l |-> <<>>], [kind |-> "dict", s |-> <<>>, l |-> <<>>]}
  \cup {[kind |-> "str", s |-> s, l |-> <<>>] : s \in KwStrings}
  \cup {[kind |-> "list", s |-> <<>>, l |-> l] : l \in SeqsUpTo(KwElems, MaxKwList)}

\* The contents of a note, as far as the key names of the keywords go: up to
\* MaxKeysPresent of the names are present.
RECURSIVE ContentsWith(_)
ContentsWith(n) ==
  IF n = 0 THEN {[k \in KeyNames |-> Absent]}
  ELSE {[c EXCEPT ![k] = v] : c \in ContentsWith(n - 1), k \in KeyNames, v \in KwValues \cup {Absent}}

InitKeywords ==
  /\ venues = <<>>
  /\ papers = <<>>
  /\ matches = <<>>
  /\ writer = 0
  /\ now = 0
  /\ call = [p \in Procs |-> NoCall]
  /\ fn = [p \in Procs |-> fetch_notes_init(<<>>)]
  /\ prev = NoPrev
  /\ ncalls = 0
  /\ source = 0
  /\ arg \in ContentsWith(MaxKeysPresent)
  /\ ret = <<>>

\* line 47-56: the call returns
ExtractKeywords ==
  /\ ret = <<>>
  /\ ret' = <<extract_keywords(arg)>>
  /\ UNCHANGED <<venues, papers, matches, writer, now, call, fn, prev, ncalls, source, arg>>

NextKeywords == ExtractKeywords

SpecKeywords == InitKeywords /\ [][NextKeywords]_vars
\* the key-name variants present in the argument, by their place in the list
PresentKeys == {k \in 1..Len(keys) : arg[keys[k]].kind # "absent"}

\* those present with a list or a string
UsableKeys == {k \in 1..Len(keys) : arg[keys[k]].kind \in {"list", "str"}}

\* the content without the variants other than the k-th
Only(content, k) == [n \in KeyNames |-> IF n = keys[k] THEN content[n] ELSE Absent]

\* s without the whitespace at its ends
Trimmed(s) ==
  LET solid == {i \in 1..Len(s) : s[i] # " "}
  IN  IF solid = {} THEN <<>> ELSE SubSeq(s, Min(solid), Max(solid))

\* the non-empty trimmed pieces of s between commas and semicolons, in order
TokensOf(s) ==
  LET cuts == {0, Len(s) + 1} \cup {i \in 1..Len(s) : s[i] \in {",", ";"}}
      starts == {x \in cuts : x <= Len(s) /\ Trimmed(SubSeq(s, x + 1, Min({y \in cuts : y > x}) - 1)) # <<>>}
      order == SortedSeq(starts)
  IN  [k \in 1..Len(order) |->
         Trimmed(SubSeq(s, order[k] + 1, Min({y \in cuts : y > order[k]}) - 1))]

\* what a value of the k-th variant yields by the claim
YieldOf(k) ==
  LET v == arg[keys[k]]
  IN  /\ v.kind = "list" => ret[1] = [i \in 1..Len(v.l) |-> Trimmed(str(v.l[i]))]
      /\ v.kind = "str" => ret[1] = TokensOf(v.s)
      /\ (v.kind = "str" /\ v.s = KwExample)
         => ret[1] = <<<<"L", "L", "M">>, <<"S", "a", "f", "e", "t", "y">>, <<"R", "L", "H", "F">>>>

\* C15 (as claimed): the first key-name variant present in the content
\* decides the result, whatever the later variants hold; a list yields its
\* elements stringified and trimmed, a string its non-empty trimmed tokens.
C15_FirstPresentDecides ==
  Len(ret) = 1
  => IF PresentKeys = {} THEN ret[1] = <<>>
     ELSE /\ ret[1] = extract_keywords(Only(arg, Min(PresentKeys)))
          /\ YieldOf(Min(PresentKeys))

\* C15 (amended): the first variant present with a list or a string decides
\* the result, whatever the later variants hold; a variant present with any
\* other value is passed over; without such a variant the result is empty.
C15_FirstListOrString ==
  Len(ret) = 1
  => IF UsableKeys = {} THEN ret[1] = <<>>
     ELSE /\ ret[1] = extract_keywords(Only(arg, Min(UsableKeys)))
          /\ YieldOf(Min(UsableKeys))

\* C15 (witness): the first variant present holds None, a later one a string
\* with an empty piece, and the result is the tokens of that string
C15_Witness ==
  /\ Len(ret) = 1
  /\ PresentKeys # {} /\ UsableKeys # {}
  /\ Min(PresentKeys) < Min(UsableKeys)
  /\ arg[keys[Min(UsableKeys)]].kind = "str"
  /\ Len(split_commas(replace_semicolons(arg[keys[Min(UsableKeys)]].s))) > Len(ret[1])
  /\ Len(ret[1]) >= 1

\* C15 (second witness): "LLM, Safety; RLHF" under Keywords gave three keywords
C15_WitnessExample ==
  /\ Len(ret) = 1
  /\ arg["Keywords"].kind = "str" /\ arg["Keywords"].s = KwExample
  /\ arg["keywords"].kind = "absent"
  /\ Len(ret[1]) = 3

-----------------------------------------------------------------------------
(* openreview_client.py: parse_rating *)

MaxRatingLen == 4    \* characters of a rating string

\* ch.isdigit()
IsDigit(ch) == ch \in {"0", "1", "2", "3", "4", "5", "6", "7", "8", "9"}

DigitValue(ch) == CHOOSE d \in 0..9 : Digits[d + 1] = ch

RECURSIVE Pow10(_)
Pow10(e) == IF e = 0 THEN 1 ELSE 10 * Pow10(e - 1)

\* A float with finitely many decimals: m / 10^e, without trailing zeros.
RECURSIVE Float(_, _)
Float(m, e) == IF e > 0 /\ m % 10 = 0 THEN Float(m \div 10, e - 1) ELSE [m |-> m, e |-> e]

HasDigit(buf) == \E i \in 1..Len(buf) : IsDigit(buf[i])

HasDot(buf) == \E i \in 1..Len(buf) : buf[i] = "."

\* the integer the digits of buf spell, the decimal point left out
RECURSIVE int_digits(_)
int_digits(buf) ==
  IF buf = <<>> THEN 0
  ELSE IF IsDigit(buf[Len(buf)])
       THEN 10 * int_digits(SubSeq(buf, 1, Len(buf) - 1)) + DigitValue(buf[Len(buf)])
       ELSE int_digits(SubSeq(buf, 1, Len(buf) - 1))

\* the digits of buf after its decimal point
Decimals(buf) ==
  IF HasDot(buf) THEN Len(buf) - Min({i \in 1..Len(buf) : buf[i] = "."}) ELSE 0

\* float(buf) of digits with at most one point; <<>> where it raises ValueError
float_of(buf) == IF HasDigit(buf) THEN <<Float(int_digits(buf), Decimals(buf))>> ELSE <<>>

\* line 37-41: the loop over the characters of s from the i-th on
RECURSIVE scan(_, _, _)
scan(s, i, buf) ==
  IF i > Len(s) THEN buf
  ELSE IF IsDigit(s[i]) \/ (s[i] = "." /\ ~HasDot(buf))
       THEN scan(s, i + 1, Append(buf, s[i]))
       ELSE IF buf # <<>> THEN buf
            ELSE scan(s, i + 1, buf)

\* str(value) of a {"value": s} wrapper, as far as the scan can tell
str_dict(s) == <<"{">> \o s \o <<"}">>

\* parse_rating: <<>> for None, else the one sample
parse_rating(value) ==
  CASE value.kind = "none" -> <<>>
    [] value.kind = "int" -> <<Float(value.n, 0)>>
    [] value.kind = "str" -> float_of(scan(value.s, 1, <<>>))
    [] value.kind = "dict" -> float_of(scan(str_dict(value.s), 1, <<>>))

\* The characters of a rating string.
RatingChars == {"7", "0", ".", ":", " "}

\* The values a rating key holds: None, a number, a string.
RatingValues ==
  {[kind |-> "none", s |-> <<>>, n |-> 0], [kind |-> "int", s |-> <<>>, n |-> 7]}
  \cup {[kind |-> "str", s |-> s, n |-> 0] : s \in SeqsUpTo(RatingChars, MaxRatingLen)}

InitRating ==
  /\ venues = <<>>
  /\ papers = <<>>
  /\ matches = <<>>
  /\ writer = 0
  /\ now = 0
  /\ call = [p \in Procs |-> NoCall]
  /\ fn = [p \in Procs |-> fetch_notes_init(<<>>)]
  /\ prev = NoPrev
  /\ ncalls = 0
  /\ source = 0
  /\ arg \in RatingValues
  /\ ret = <<>>

\* line 29-44: the call returns
ParseRating ==
  /\ ret = <<>>
  /\ ret' = <<parse_rating(arg)>>
  /\ UNCHANGED <<venues, papers, matches, writer, now, call, fn, prev, ncalls, source, arg>>

NextRating == ParseRating

SpecRating == InitRating /\ [][NextRating]_vars

\* The leading numeric token as the claim words it: digits and at most one
\* decimal point are collected, other characters are passed over until a
\* digit has been collected, and the first of them after that ends the scan.
RECURSIVE Token(_, _, _)
Token(s, i, buf) ==
  IF i > Len(s) THEN buf
  ELSE IF s[i] \in {"0", "7"} \/ (s[i] = "." /\ ~HasDot(buf))
       THEN Token(s, i + 1, Append(buf, s[i]))
       ELSE IF HasDigit(buf) THEN buf
            ELSE Token(s, i + 1, buf)

\* C17: for a string the sample is the number the leading numeric token
\* spells, the scan stopping at a non-numeric character only once a digit
\* has been collected; a value without a number yields no sample.
C17_ParseRating ==
  (Len(ret) = 1 /\ arg.kind = "str")
  => LET tok == Token(arg.s, 1, <<>>)
     IN  /\ HasDigit(tok) => ret[1] = <<Float(int_digits(tok), Decimals(tok))>>
         /\ ~HasDigit(tok) => ret[1] = <<>>

\* C17 (what the code keeps): the scan ends at the first character that is
\* not collected once anything, digit or point, has been collected
C17_StopsAfterAny ==
  (Len(ret) = 1 /\ arg.kind = "str")
  => LET buf == scan(arg.s, 1, <<>>)
         first == Min({i \in 1..Len(arg.s) : IsDigit(arg.s[i]) \/ arg.s[i] = "."})
     IN  IF \A i \in 1..Len(arg.s) : ~(IsDigit(arg.s[i]) \/ arg.s[i] = ".")
         THEN ret[1] = <<>>
         ELSE /\ buf = SubSeq(arg.s, first, first + Len(buf) - 1)
              /\ (first + Len(buf) <= Len(arg.s))
                 => LET ch == arg.s[first + Len(buf)] IN ~IsDigit(ch) /\ (ch = "." => HasDot(buf))
              /\ ret[1] = float_of(buf)

-----------------------------------------------------------------------------
(* openreview_client.py: summarize, the direct replies *)

MaxReplies == 2      \* direct replies of a note
MaxReplyKeys == 2    \* keys the content of a reply holds

\* The keys of a reply's content, in the order rcontent.items() yields them.
ReplyKeys ==
  <<"decision", "Decision", "DECISION", "recommendation",
    "rating", "Rating", "Soundness_Rating", "confidence">>

DecisionKeys == {"decision", "Decision", "DECISION", "recommendation"}

RatingKeys == {"rating", "Rating", "Soundness_Rating", "confidence"}

\* k.lower() == "decision"
IsDecisionKey(k) == k \in {"decision", "Decision", "DECISION"}

\* "rating" in key.lower()
ContainsRating(k) == k \in {"rating", "Rating", "Soundness_Rating"}

DecisionInvitation == "ICLR.cc/2024/Conference/Paper1/-/Decision"

ReviewInvitation == "ICLR.cc/2024/Conference/Paper1/-/Official_Review"

\* "Decision" in invitation
ContainsDecision(invitation) == invitation = DecisionInvitation

\* A key the content of a reply does not hold.
NoValue == [kind |-> "absent", s |-> <<>>, n |-> 0]

NoneValue == [kind |-> "none", s |-> <<>>, n |-> 0]

\* rcontent.get(key)
get(rcontent, key) == IF rcontent[key].kind = "absent" THEN NoneValue ELSE rcontent[key]

\* Python truthiness: None, "" and 0 are false, a {"value": ...} dict is true
TruthyValue(v) ==
  CASE v.kind = "str" -> v.s # <<>>
    [] v.kind = "int" -> v.n # 0
    [] v.kind = "dict" -> TRUE
    [] OTHER -> FALSE

\* a or b
or(a, b) == IF TruthyValue(a) THEN a ELSE b

\* if isinstance(dv, dict) and "value" in dv: dv = dv["value"]
unwrap(dv) == IF dv.kind = "dict" THEN [kind |-> "str", s |-> dv.s, n |-> 0] ELSE dv

\* str(dv)
str_value(dv) == IF dv.kind = "int" THEN str_int(dv.n) ELSE dv.s

\* line 101: the reply is looked at for a decision
is_decision_reply(reply) ==
  \/ ContainsDecision(reply.invitation)
  \/ \E k \in DOMAIN reply.content : reply.content[k].kind # "absent" /\ IsDecisionKey(k)

\* line 102-106: the decision after this reply
decision_after(decision, reply) ==
  LET rcontent == reply.content
      dv == unwrap(or(or(get(rcontent, "decision"), get(rcontent, "Decision")),
                      get(rcontent, "recommendation")))
  IN  IF is_decision_reply(reply) /\ TruthyValue(dv) THEN <<str_value(dv)>> ELSE decision

\* line 107-111: the samples of the keys of rcontent from the k-th on
RECURSIVE ratings_from(_, _)
ratings_from(rcontent, k) ==
  IF k > Len(ReplyKeys) THEN <<>>
  ELSE LET key == ReplyKeys[k]
           val == rcontent[key]
       IN  IF val.kind # "absent" /\ ContainsRating(key)
           THEN parse_rating(val) \o ratings_from(rcontent, k + 1)
           ELSE ratings_from(rcontent, k + 1)

\* line 98-111: the loop over the replies from the k-th on
RECURSIVE reply_loop(_, _, _)
reply_loop(direct, k, acc) ==
  IF k > Len(direct) THEN acc
  ELSE reply_loop(direct, k + 1,
                  [decision |-> decision_after(acc.decision, direct[k]),
                   ratings |-> acc.ratings \o ratings_from(direct[k].content, 1)])

\* sum(ratings), at the scale of e decimals
RECURSIVE sum_scaled(_, _)
sum_scaled(ratings, e) ==
  IF ratings = <<>> THEN 0
  ELSE Head(ratings).m * Pow10(e - Head(ratings).e) + sum_scaled(Tail(ratings), e)

\* sum(ratings) / len(ratings), as the fraction <<numerator, denominator>>
mean(ratings) ==
  LET e == Max({ratings[i].e : i \in 1..Len(ratings)})
  IN  <<sum_scaled(ratings, e), Len(ratings) * Pow10(e)>>

\* (mutant) the replies are counted
num_replies(direct, ratings) == Len(direct)

\* num_reviews=len(ratings)
num_reviews(direct, ratings) == Len(ratings)

\* line 95-113, 121-123: decision, avg_rating and num_reviews of the summary
summarize_replies(direct) ==
  LET r == reply_loop(direct, 1, [decision |-> <<>>, ratings |-> <<>>])
  IN  [decision |-> r.decision,
       ratings |-> r.ratings,
       avg_rating |-> IF r.ratings # <<>> THEN <<mean(r.ratings)>> ELSE <<>>,
       num_reviews |-> num_reviews(direct, r.ratings)]
\* The contents that hold up to n of the keys `held`, with values of `values`.
RECURSIVE ReplyContents(_, _, _)
ReplyContents(held, values, n) ==
  IF n = 0 THEN {[k \in DecisionKeys \cup RatingKeys |-> NoValue]}
  ELSE {[c EXCEPT ![k] = v] : c \in ReplyContents(held, values, n - 1), k \in held, v \in values \cup {NoValue}}

\* The values under a decision key: None, "", "A", {"value": "R"}.
DecisionValues ==
  { NoneValue,
    [kind |-> "str", s |-> <<>>, n |-> 0],
    [kind |-> "str", s |-> <<"A">>, n |-> 0],
    [kind |-> "dict", s |-> <<"R">>, n |-> 0] }

\* Replies with decision keys, under a decision or a review invitation.
DecisionReplies ==
  [invitation : {DecisionInvitation, ReviewInvitation},
   content : ReplyContents(DecisionKeys, DecisionValues, MaxReplyKeys)]

\* The values under a rating key: None, 4, "7: Good", "3", "2.5", "N/A".
ReplyRatingValues ==
  { NoneValue,
    [kind |-> "int", s |-> <<>>, n |-> 4],
    [kind |-> "str", s |-> <<"7", ":", " ", "G", "o", "o", "d">>, n |-> 0],
    [kind |-> "str", s |-> <<"3">>, n |-> 0],
    [kind |-> "str", s |-> <<"2", ".", "5">>, n |-> 0],
    [kind |-> "str", s |-> <<"N", "/", "A">>, n |-> 0] }

\* Replies with rating keys, under a review invitation.
RatingReplies ==
  [invitation : {ReviewInvitation},
   content : ReplyContents(RatingKeys, ReplyRatingValues, MaxReplyKeys)]

\* line 95-113: the replies are summarized
SummarizeReplies ==
  /\ ret = <<>>
  /\ ret' = <<summarize_replies(arg)>>
  /\ UNCHANGED <<venues, papers, matches, writer, now, call, fn, prev, ncalls, source, arg>>

InitDecision ==
  /\ venues = <<>>
  /\ papers = <<>>
  /\ matches = <<>>
  /\ writer = 0
  /\ now = 0
  /\ call = [p \in Procs |-> NoCall]
  /\ fn = [p \in Procs |-> fetch_notes_init(<<>>)]
  /\ prev = NoPrev
  /\ ncalls = 0
  /\ source = 0
  /\ arg \in SeqsUpTo(DecisionReplies, MaxReplies)
  /\ ret = <<>>

NextDecision == SummarizeReplies

SpecDecision == InitDecision /\ [][NextDecision]_vars

InitRatings ==
  /\ venues = <<>>
  /\ papers = <<>>
  /\ matches = <<>>
  /\ writer = 0
  /\ now = 0
  /\ call = [p \in Procs |-> NoCall]
  /\ fn = [p \in Procs |-> fetch_notes_init(<<>>)]
  /\ prev = NoPrev
  /\ ncalls = 0
  /\ source = 0
  /\ arg \in SeqsUpTo(RatingReplies, MaxReplies)
  /\ ret = <<>>

NextRatings == SummarizeReplies

SpecRatings == InitRatings /\ [][NextRatings]_vars
\* the reply has a content key equal to "decision" ignoring case
HasDecisionKey(reply) ==
  \E k \in {"decision", "Decision", "DECISION"} : reply.content[k].kind # "absent"

\* the text of a value, scalar or {"value": ...} wrapper
TextOf(v) == IF v.kind = "int" THEN str_int(v.n) ELSE v.s

\* the decisions the qualifying replies state under a key equal to
\* "decision" ignoring case (a value without text states none)
Stated(keynames) ==
  UNION {{TextOf(arg[i].content[k]) :
            k \in {h \in keynames : arg[i].content[h].kind \in {"str", "int", "dict"}}} :
         i \in {j \in 1..Len(arg) : ContainsDecision(arg[j].invitation) \/ HasDecisionKey(arg[j])}}
  \ {<<>>}

\* C16: a reply whose invitation contains "Decision" or that has a content
\* key equal to "decision" ignoring case contributes a decision: the
\* summary's decision is the text of such a key's value, scalar or wrapper;
\* when no reply qualifies the decision is absent.
C16_Decision ==
  Len(ret) = 1
  => /\ (\A i \in 1..Len(arg) : ~(ContainsDecision(arg[i].invitation) \/ HasDecisionKey(arg[i])))
        => ret[1].decision = <<>>
     /\ Stated({"decision", "Decision", "DECISION"}) # {}
        => /\ ret[1].decision # <<>>
           /\ ret[1].decision[1] \in Stated({"decision", "Decision", "DECISION"} \cup {"recommendation"})

\* C16 (what the code keeps): the same for the keys the code reads,
\* "decision", "Decision" and "recommendation"
C16_KeysRead ==
  Len(ret) = 1
  => /\ (\A i \in 1..Len(arg) : ~(ContainsDecision(arg[i].invitation) \/ HasDecisionKey(arg[i])))
        => ret[1].decision = <<>>
     /\ Stated({"decision", "Decision", "recommendation"}) # {}
        => /\ ret[1].decision # <<>>
           /\ ret[1].decision[1] \in Stated({"decision", "Decision", "recommendation"})
     /\ Stated({"decision", "Decision", "recommendation"}) = {} => ret[1].decision = <<>>

\* the rating-bearing keys of the replies whose value parses: (reply, key)
Samples ==
  {p \in (1..Len(arg)) \X {"rating", "Rating", "Soundness_Rating"} :
     /\ arg[p[1]].content[p[2]].kind # "absent"
     /\ parse_rating(arg[p[1]].content[p[2]]) # <<>>}

SampleOf(p) == parse_rating(arg[p[1]].content[p[2]])[1]

\* the sum of the samples of the pairs in S, in thousandths
RECURSIVE SumThousandths(_)
SumThousandths(S) ==
  IF S = {} THEN 0
  ELSE LET p == CHOOSE q \in S : TRUE
       IN  SampleOf(p).m * Pow10(3 - SampleOf(p).e) + SumThousandths(S \ {p})

\* C18: the review count is the number of rating samples, one per content
\* key containing "rating" ignoring case whose value parses, over all direct
\* replies; the average rating is their sum divided by their number, absent
\* exactly when the count is 0.
C18_RatingAggregation ==
  Len(ret) = 1
  => /\ ret[1].num_reviews = Cardinality(Samples)
     /\ ret[1].avg_rating = <<>> <=> ret[1].num_reviews = 0
     /\ ret[1].avg_rating # <<>>
        => FracEq(ret[1].avg_rating[1], <<SumThousandths(Samples), 1000 * Cardinality(Samples)>>)

\* C18 (witness): one reply with Rating "7: Good" and Soundness_Rating "3":
\* two reviews counted, average 5.0
C18_Witness ==
  /\ Len(ret) = 1
  /\ Len(arg) = 1
  /\ arg[1].content["Rating"].s = <<"7", ":", " ", "G", "o", "o", "d">>
  /\ arg[1].content["Soundness_Rating"].s = <<"3">>
  /\ ret[1].num_reviews = 2
  /\ FracEq(ret[1].avg_rating[1], <<5, 1>>)

\* C18 (second witness): two replies, one sample: a value that does not parse
\* and a key without "rating" are not counted
C18_WitnessSkipped ==
  /\ Len(ret) = 1
  /\ Len(arg) = 2
  /\ arg[1].content["confidence"].kind = "int"
  /\ arg[2].content["rating"].s = <<"N", "/", "A">>
  /\ arg[2].content["Rating"].s = <<"2", ".", "5">>
  /\ ret[1].num_reviews = 1
  /\ FracEq(ret[1].avg_rating[1], <<5, 2>>)

-----------------------------------------------------------------------------
(* Claims about the return value and the order of the steps of ingest_group *)

\* the last summary of the call that was written to the stored row `found`
LastOnRow(c, found) ==
  c.submissions[Max({j \in 1..Len(c.submissions) : c.papers_found[j] = found})]

\* C19: a successful call returns the number of summaries the fetch
\* returned, one per distinct record id, each of them upserted as a Paper in
\* the call, inserted or updated; it returns 0 when no record was fetched.
C19_ReturnCount ==
  LET c == call[1]
      all == Fetched(c.served)
  IN  Finished(c)
      => /\ c.count = Len(c.submissions)
         /\ c.count = Cardinality({all[i].id : i \in 1..Len(all)})
         /\ all = <<>> => c.count = 0
         /\ \A i \in 1..c.count :
              LET s == c.submissions[i]
                  found == c.papers_found[i]
              IN  IF found = 0
                  THEN \E r \in (Len(c.before.papers) + 1)..Len(papers) :
                         /\ papers[r].venue_id = c.venue
                         /\ papers[r].openreview_forum = s.forum
                         /\ papers[r].openreview_note = s.note
                         /\ papers[r].title = s.title
                         /\ papers[r].last_refreshed = now
                  ELSE /\ found <= Len(c.before.papers)
                       /\ papers[found].openreview_forum = s.forum
                       /\ papers[found].title = LastOnRow(c, found).title
                       /\ papers[found].last_refreshed = now

\* C19 (witness): a later call returned 2, one summary updated a stored
\* Paper and the other was inserted
C19_Witness ==
  LET c == call[1]
  IN  /\ Finished(c)
      /\ c.count = 2
      /\ c.before.papers # <<>>
      /\ \E i, j \in 1..2 : c.papers_found[i] = 0 /\ c.papers_found[j] # 0

\* C19 (second witness): two copies of one record were fetched and 1 returned
C19_WitnessDeduplicated ==
  /\ Finished(call[1])
  /\ Len(Fetched(call[1].served)) = 2
  /\ call[1].count = 1

\* C20 (as claimed): while the Fetcher runs, the Venue row of the group has
\* been ensured already.
C20_VenueBeforeFetch ==
  \A p \in Procs : call[p].pc \in {"fetch", "raised_fetch"} => call[p].venue # 0

\* C20 (amended): the Fetcher runs first: while it runs, and when it has
\* failed, the call has neither selected nor created a Venue row; the row is
\* ensured once the Fetcher has returned.
C20_FetchBeforeVenue ==
  \A p \in Procs :
    LET c == call[p]
    IN  /\ c.pc \in {"fetch", "raised_fetch"}
           => /\ c.venue = 0
              /\ c.newVenue = <<>>
              /\ venues = c.before.venues
        /\ (c.venue # 0 \/ c.pc = "venue_insert")
           => /\ fn[p].state = "returned"
              /\ c.submissions = (IF c.notes = <<>> THEN <<>> ELSE summaries(c.notes))

\* C20 (witness): the Venue row is created after the fetch returned a record
C20_Witness ==
  /\ call[1].newVenue # <<>>
  /\ call[1].submissions # <<>>
  /\ fn[1].state = "returned"

\* C20 (second witness): the fetch for a new group failed and no Venue row
\* of the group exists
C20_WitnessFailed ==
  /\ call[1].pc = "raised_fetch"
  /\ venue_by_group(call[1].group_id) = {}

-----------------------------------------------------------------------------
(* fetch_notes against an endpoint that pages its collection faithfully *)

MaxSourcePages == 2  \* full pages in the endpoint's collection

InitPaging ==
  /\ venues = <<>>
  /\ papers = <<>>
  /\ matches = <<>>
  /\ writer = 0
  /\ now = 0
  /\ call = [p \in Procs |-> NoCall]
  /\ fn = [p \in Procs |-> fetch_notes_init(<<"ICLR.cc/2024/Conference", "Submission">>)]
  /\ prev = NoPrev
  /\ ncalls = 0
  /\ source \in 0..(MaxSourcePages * page_size + 1)
  /\ arg = <<>>
  /\ ret = <<>>

\* line 71-80 against the endpoint: it serves min(200, source - offset)
\* records at the offset asked for
PagingResponse == NotesPage(Served(fn[1].offset))

NextPaging == PagingResponse

\* the event loop resumes the coroutine whenever the response is there
SpecPaging == InitPaging /\ [][NextPaging]_vars /\ WF_vars(NextPaging)

\* the endpoint's records, in its order
SourceOrder == [k \in 1..source |-> k]

\* C21 (as long as it runs): the fetch has made no more than
\* floor(N/200) + 1 requests and holds the first `offset` records of the
\* source; once it has returned it has made exactly floor(N/200) + 1
\* requests and holds all N records, each once and in source order.
C21_Requests ==
  LET f == fn[1]
  IN  /\ Len(f.requests) <= (source \div 200) + 1
      /\ f.collected = SubSeq(SourceOrder, 1, f.offset)
      /\ f.state # "raised"
      /\ f.state = "returned" =>
           /\ Len(f.requests) = (source \div 200) + 1
           /\ f.collected = SourceOrder
           /\ \A i, j \in 1..Len(f.collected) : f.collected[i] = f.collected[j] => i = j

\* C21: against a source of N records that serves min(200, N - offset)
\* records at every offset, fetch_notes terminates, after floor(N/200) + 1
\* requests, and returns all N records, each once and in source order.
C21_Completeness == [](C21_Requests) /\ <>(fn[1].state = "returned")

\* C21 (witness): a source of two full pages and one record more has been
\* fetched with three requests
C21_Witness ==
  /\ source = 2 * page_size + 1
  /\ fn[1].state = "returned"
  /\ Len(fn[1].requests) = 3
  /\ Len(fn[1].collected) = source

\* C21 (witness): a source of exactly one full page costs a second, empty
\* request
C21_WitnessFullPage ==
  /\ source = page_size
  /\ fn[1].state = "returned"
  /\ Len(fn[1].requests) = 2
  /\ fn[1].requests[2].returned = 0

-----------------------------------------------------------------------------
(* The rows an ingest call leaves alone *)

\* the rows of the store before call c that belong to another venue than
\* the one c ingests
OtherVenues(c) ==
  {i \in 1..Len(c.before.venues) : c.before.venues[i].group_id # c.group_id}

OtherPapers(c) ==
  {i \in 1..Len(c.before.papers) : c.before.papers[i].venue_id \in OtherVenues(c)}

OtherMatches(c) ==
  {i \in 1..Len(c.before.matches) : c.before.matches[i].paper_id \in OtherPapers(c)}

\* C22: an ingest call for venue V changes only rows of V: every Venue row
\* of another group id, every Paper row of another venue and every
\* PreprintMatch row of such a Paper is as it was before the call, also
\* when a fetched record carries a forum id stored under another venue; and
\* the call adds no row to another venue.
C22_Frame ==
  \A p \in Procs :
    LET c == call[p]
    IN  c.pc # "idle"
        => /\ \A i \in OtherVenues(c) : venues[i] = c.before.venues[i]
           /\ \A i \in OtherPapers(c) : papers[i] = c.before.papers[i]
           /\ \A i \in OtherMatches(c) : matches[i] = c.before.matches[i]
           /\ \A i \in 1..Len(papers) :
                i > Len(c.before.papers) => papers[i].venue_id \notin OtherVenues(c)
           /\ \A i \in 1..Len(matches) :
                i > Len(c.before.matches) => matches[i].paper_id \notin OtherPapers(c)

\* C22 (what the code keeps): Venue rows and PreprintMatch rows of another
\* venue are as before, no row is added to another venue, and a Paper row
\* of another venue is as before unless a fetched record carries its forum.
C22_FrameButForum ==
  \A p \in Procs :
    LET c == call[p]
    IN  c.pc # "idle"
        => /\ \A i \in OtherVenues(c) : venues[i] = c.before.venues[i]
           /\ \A i \in OtherPapers(c) :
                c.before.papers[i].openreview_forum \notin ForumsOf(c)
                => papers[i] = c.before.papers[i]
           /\ \A i \in OtherMatches(c) : matches[i] = c.before.matches[i]
           /\ \A i \in 1..Len(papers) :
                i > Len(c.before.papers) => papers[i].venue_id \notin OtherVenues(c)
           /\ \A i \in 1..Len(matches) :
                i > Len(c.before.matches) => matches[i].paper_id \notin OtherPapers(c)

\* C22 (where it matters): a call has written papers and matches while rows
\* of another venue, with matches, were in the store
C22_WitnessOther ==
  /\ call[1].pc = "done"
  /\ OtherMatches(call[1]) # {}
  /\ Len(papers) > Len(call[1].before.papers)
  /\ Len(matches) > Len(call[1].before.matches)

-----------------------------------------------------------------------------
(* One ingest call whose Matcher is find_arxiv_match *)

MaxRecordTitleLen == 1  \* characters of a fetched record's title

\* The pages the notes endpoint serves: none, or one record with a title.
TitledPages ==
  {<<>>} \cup {<<[id |-> "n1", forum |-> "f1", title |-> t]>> :
                 t \in SeqsUpTo(Chars, MaxRecordTitleLen)}

\* line 35-39: the k-th entry of the feed; an entry without an atom:id
\* element has the identifier ""
Entries(k) == {[aid |-> a, title |-> t] : a \in {ArxivIds[k], ""}, t \in CandTitles}

RECURSIVE FeedsOfLen(_)
FeedsOfLen(n) ==
  IF n = 0 THEN {<<>>}
  ELSE {Append(f, e) : f \in FeedsOfLen(n - 1), e \in Entries(n)}

\* What query_arxiv_by_title can return, identifiers that may be empty.
IdFeeds(n) == UNION {FeedsOfLen(k) : k \in 0..n}

\* line 68-79: find_arxiv_match(p.title), the search having returned `feed`
MatcherAnswers(p, feed) ==
  /\ call[p].pc = "await"
  /\ MatcherReturn(p, find_arxiv_match(papers[call[p].plist[call[p].idx]].title, feed))

NextStore ==
  \/ /\ ncalls = 0
     /\ Begin(1, "ICLR.cc/2024/Conference", <<None, None>>, TRUE, 0)
  \/ \E notes \in TitledPages : FetchPage(1, notes)
  \/ FetchRaise(1)
  \/ VenueSelect(1)
  \/ VenueInsert(1)
  \/ UpsertPaper(1)
  \/ Commit1(1)
  \/ LoadPapers(1)
  \/ MatchCheck(1)
  \/ \E feed \in IdFeeds(MaxFeed) : MatcherAnswers(1, feed)
  \/ MatcherRaise(1)
  \/ Commit2(1)

SpecStore == Init /\ [][NextStore]_vars

\* a score as the quotient num/den within [0, 1]
InUnit(s) == s[2] > 0 /\ 0 <= s[1] /\ s[1] <= s[2]

IsOne(s) == s[1] = s[2]

RowOk(m) ==
  /\ m.arxiv_id # None
  /\ m.arxiv_id # ""
  /\ InUnit(m.score)
  /\ m.exact => IsOne(m.score)

\* C23: every PreprintMatch row that ingest stores has a non-empty preprint
\* identifier and a score within [0, 1], and score 1.0 whenever exact is
\* true; no row is stored for a no-match result.
C23_MatchRow ==
  /\ \A i \in 1..Len(matches) : RowOk(matches[i])
  /\ \A p \in Procs :
       LET c == call[p]
           done == {i \in 1..Len(c.trail) : c.trail[i].invoked /\ ~(c.pc = "await" /\ i = Len(c.trail))}
       IN  /\ \A k \in 1..Len(c.pendMatches) : RowOk(c.pendMatches[k])
           /\ \A i \in done : c.trail[i].aid = None => ~c.trail[i].inserted
           /\ Len(c.pendMatches) <= Cardinality({i \in done : c.trail[i].aid # None})
           /\ c.pc = "done" =>
                Len(matches) = Len(c.before.matches)
                               + Cardinality({i \in done : c.trail[i].inserted})

\* C23 (witness): an inexact match with a score strictly between 0 and 1 is
\* stored
C23_Witness ==
  \E i \in 1..Len(matches) :
    /\ ~matches[i].exact
    /\ 0 < matches[i].score[1]
    /\ matches[i].score[1] < matches[i].score[2]

\* C23 (witness): an exact match is stored with score 1.0
C23_WitnessExact ==
  \E i \in 1..Len(matches) : matches[i].exact /\ IsOne(matches[i].score)

\* C23 (witness): the call is done, the Matcher found nothing for its paper
\* and no row was stored
C23_WitnessNoMatch ==
  /\ call[1].pc = "done"
  /\ \E i \in 1..Len(call[1].trail) : call[1].trail[i].invoked /\ call[1].trail[i].aid = None
  /\ matches = <<>>

\* C23 (witness): the best candidate had an empty identifier and no row was
\* stored
C23_WitnessEmptyId ==
  /\ call[1].pc = "done"
  /\ \E i \in 1..Len(call[1].trail) : call[1].trail[i].invoked /\ call[1].trail[i].aid = ""
  /\ matches = <<>>

====
